---- MODULE Spec2Model ----
(***************************************************************************)
(* FSI Margin Intelligence MCP server (src/mcp_server.py).                 *)
(*                                                                         *)
(* The server is a catalog of read-only operations.  Each handler builds   *)
(* one SQL statement with a positional bound-value list, hands it to       *)
(* run_query (connect, cursor, execute, fetchall, close) and returns the   *)
(* rows.  The model keeps the fact table, the REPORT_CONTROL singleton and *)
(* the clock as state, gives each handler one action, and evaluates the    *)
(* statement the handler assembled the way the SQL engine does.            *)
(*                                                                         *)
(* Text values are sequences of character codes ("TX" is <<84, 88>>), so   *)
(* that UPPER, LIKE, string ordering and date formatting are computed and  *)
(* not assumed.  A SQL NULL number is <<>>, a non-null number n is <<n>>.  *)
(* Money amounts are whole currency units; a margin percentage is kept in  *)
(* hundredths of a percent (ROUND(x, 2) of a percentage).                  *)
(***************************************************************************)
EXTENDS Integers, Sequences, FiniteSets, TLC

VARIABLES
    db,        \* FSI_MARGIN_BASE_MAT: the set of fact rows
    cfg,       \* REPORT_CONTROL: the singleton configuration row
    today,     \* CURRENT_DATE(), as [y |-> year, m |-> month]
    resp,      \* what the handler invoked last returned (or raised)
    prev,      \* the response a caller kept to compare the next one with
    calls,     \* run_query, step by step: the frame of each invocation in flight
    sessions   \* every Snowflake session opened so far, by handle

vars == <<db, cfg, today, resp, prev, calls, sessions>>
run  == <<calls, sessions>>

----------------------------------------------------------------------------
(* Text, NULL and Python None                                              *)

\* Python None for an optional str parameter; no text holds the code -1.
None == <<-1>>

\* `if period_month:` -- None and the empty string are both falsy.
Truthy(s) == s # None /\ s # <<>>

Null == <<>>
Some(n) == <<n>>
Coalesce(x, d) == IF x = Null THEN d ELSE x[1]

Min2(a, b) == IF a < b THEN a ELSE b
Max2(a, b) == IF a > b THEN a ELSE b
Abs(n) == IF n < 0 THEN -n ELSE n

UpperChar(c) == IF c >= 97 /\ c <= 122 THEN c - 32 ELSE c
Upper(s) == [i \in 1..Len(s) |-> UpperChar(s[i])]

\* f"%{text}%"
Wildcarded(s) == <<37>> \o s \o <<37>>

\* SQL LIKE: % (37) matches any run of characters, _ (95) any one character.
RECURSIVE Like(_, _)
Like(s, p) ==
    IF p = <<>> THEN s = <<>>
    ELSE IF Head(p) = 37
         THEN Like(s, Tail(p)) \/ (s # <<>> /\ Like(Tail(s), p))
         ELSE /\ s # <<>>
              /\ (Head(p) = 95 \/ Head(p) = Head(s))
              /\ Like(Tail(s), Tail(p))

\* Binary string ordering of the engine: a < b.
RECURSIVE LexLT(_, _)
LexLT(a, b) ==
    IF b = <<>> THEN FALSE
    ELSE IF a = <<>> THEN TRUE
    ELSE IF Head(a) < Head(b) THEN TRUE
    ELSE IF Head(a) > Head(b) THEN FALSE
    ELSE LexLT(Tail(a), Tail(b))

LexGE(a, b) == ~LexLT(a, b)

\* DATEADD('month', k, DATE_TRUNC('month', d))
DateAddMonths(d, k) ==
    LET idx == d.y * 12 + (d.m - 1) + k
    IN  [y |-> idx \div 12, m |-> (idx % 12) + 1]

\* TO_VARCHAR(d, 'YYYY-MM')
Digit(n, p) == 48 + ((n \div p) % 10)
ToVarcharYYYYMM(d) ==
    << Digit(d.y, 1000), Digit(d.y, 100), Digit(d.y, 10), Digit(d.y, 1),
       45,
       Digit(d.m, 10), Digit(d.m, 1) >>

----------------------------------------------------------------------------
(* Aggregation                                                             *)

\* SUM(expr) over the rows S, expr given as a function on S.
RECURSIVE SumF(_, _)
SumF(S, f) ==
    IF S = {} THEN 0
    ELSE LET r == CHOOSE x \in S : TRUE
         IN  f[r] + SumF(S \ {r}, f)

\* a / b rounded to the nearest integer, halves away from zero (ROUND).
RoundDiv(a, b) ==
    LET n == IF b < 0 THEN -a ELSE a
        d == Abs(b)
    IN  IF n >= 0 THEN (2 * n + d) \div (2 * d)
        ELSE -((2 * (-n) + d) \div (2 * d))

\* ROUND(gp / NULLIF(rev, 0) * 100, 2), in hundredths of a percent.
MarginPct(gp, rev) ==
    IF rev = 0 THEN Null ELSE Some(RoundDiv(gp * 10000, rev))

\* The groups of GROUP BY: the rows of S agreeing with r on the columns K.
GroupOf(S, K, r) == {x \in S : \A k \in K : x[k] = r[k]}
Groups(S, K) == {GroupOf(S, K, r) : r \in S}
AnyRow(G) == CHOOSE r \in G : TRUE

\* The three fixed exclusions of a "core" aggregate.
IsCore(r) == ~r.IS_TFA /\ ~r.IS_SERVICE /\ ~r.IS_PERIOD_CROSSOVER

----------------------------------------------------------------------------
(* ORDER BY ... LIMIT.  An element to sort is [key, row]; a key is a       *)
(* sequence of components [desc, v] with v a text (a number n is <<n>>).   *)
(* Rows that tie on the whole key come out in an order the engine picks.   *)

Asc(n)   == [desc |-> FALSE, v |-> <<n>>]
Desc(n)  == [desc |-> TRUE,  v |-> <<n>>]
DescT(s) == [desc |-> TRUE,  v |-> s]

CompLT(a, b) == IF a.desc THEN LexLT(b.v, a.v) ELSE LexLT(a.v, b.v)

RECURSIVE KeyLT(_, _)
KeyLT(k1, k2) ==
    IF k1 = <<>> THEN FALSE
    ELSE IF CompLT(Head(k1), Head(k2)) THEN TRUE
    ELSE IF CompLT(Head(k2), Head(k1)) THEN FALSE
    ELSE KeyLT(Tail(k1), Tail(k2))

\* The statement without its ORDER BY: any group may come first.
FirstUnordered(R) == R

\* The groups that may come first: those no other group sorts before.
First(R) == {e \in R : \A o \in R : ~KeyLT(o.key, e.key)}

\* Every order of R the ORDER BY allows.
RECURSIVE Orderings(_)
Orderings(R) ==
    IF R = {} THEN {<<>>}
    ELSE UNION { { <<e.row>> \o t : t \in Orderings(R \ {e}) } : e \in First(R) }

\* Every result the engine may return for ORDER BY key [LIMIT n].
Limited(R, n) ==
    { SubSeq(s, 1, Min2(n, Len(s))) : s \in Orderings(R) }
Unlimited(R) == Orderings(R)

----------------------------------------------------------------------------
(* Literal texts of the data used by the checks                            *)

P01 == <<50, 48, 50, 54, 45, 48, 49>>      \* "2026-01"
P02 == <<50, 48, 50, 54, 45, 48, 50>>      \* "2026-02"
BadPeriod == <<50, 48, 50, 54, 45, 50>>    \* "2026-2", not YYYY-MM

\* 'FASTENER TOOLS', the GL code of a tool placement
FastenerTools == <<70, 65, 83, 84, 69, 78, 69, 82, 32, 84, 79, 79, 76, 83>>
OtherGL == <<71, 76>>                       \* "GL"

AC == <<65, 67>>                            \* customers "AC", "BO"
BO == <<66, 79>>
TX == <<84, 88>>                            \* regions "TX", "EA"
EA == <<69, 65>>
DLR == <<68, 76, 82>>                       \* channels "DLR", "IND"
IND == <<73, 78, 68>>
JH1 == <<74, 72, 49>>                       \* item codes "JH1", "PT3"
PT3 == <<80, 84, 51>>
NAIL == <<78, 65, 73, 76>>                  \* item name and item group
GRP == <<71, 82, 80>>
SUB == <<83, 85, 66>>                       \* customer subtype and tier
TIER == <<84, 49>>

\* One line of FSI_MARGIN_BASE_MAT.
FactRow(period, cust, ctype, region, item, gl, sales, cogs, tfa, svc, xo) ==
    [ PERIOD_MONTH |-> period, PARENTNAME |-> cust, CUSTOMER_TYPE |-> ctype,
      CUSTOMER_SUBTYPE |-> SUB, CUSTOMER_TIER |-> TIER,
      PRICE_BRANCH_REGION |-> region,
      ITEM_SN2 |-> item, ITEM_NAME |-> NAIL, MASTER2 |-> GRP, GL_CODE |-> gl,
      SALES_AMT |-> sales, COGS_AMT |-> cogs, SALES_QTY |-> 1,
      IS_TFA |-> tfa, IS_SERVICE |-> svc, IS_PERIOD_CROSSOVER |-> xo ]

----------------------------------------------------------------------------
(* run_query, seen from a handler: one call, which either returns the      *)
(* whole result set or raises.  `results` is the set of result sequences   *)
(* the engine may produce for the statement.                               *)

NoResp == [op |-> "none"]

\* No invocation in flight, no session opened yet.
NoCalls == calls = <<>> /\ sessions = <<>>

RunQuery(results) ==
    { [status |-> "ok", rows |-> rs] : rs \in results }
      \cup { [status |-> "error", rows |-> <<>>] }

\* `at` is the month the statement ran in (what CURRENT_DATE() gave it).
Response(name, args, stmt, out) ==
    [ op |-> name, args |-> args, params |-> stmt.params, sql |-> stmt.sql,
      at |-> today, status |-> out.status, rows |-> out.rows ]

Idle == resp.op = "none"

\* The framework hands the handler's return value (or its exception) to the
\* caller; the next invocation starts from there.
Deliver ==
    /\ ~Idle
    /\ resp' = NoResp
    /\ UNCHANGED <<db, cfg, today, prev, run>>

\* The same, with a caller that keeps the response to compare it with the
\* one it gets next.
DeliverAndKeep ==
    /\ ~Idle
    /\ prev' = resp
    /\ resp' = NoResp
    /\ UNCHANGED <<db, cfg, today, run>>

----------------------------------------------------------------------------
(* TOOL 10 -- get_tfa_conversion_status                                    *)

LossThreshold == -500

SumGP(G) == SumF(G, [r \in G |-> r.SALES_AMT - r.COGS_AMT])
SumSales(G) == SumF(G, [r \in G |-> r.SALES_AMT])
SumCogs(G) == SumF(G, [r \in G |-> r.COGS_AMT])

\* WITH TFA AS (...): placements of the current period, per customer and
\* region, whose net gross profit is below the threshold.
\* TFA grouped by customer alone (GROUP BY 1), the loss summed over regions.
CteTFAByCustomer(D, C) ==
    LET S == {r \in D : /\ r.PERIOD_MONTH = C.CURRENT_PERIOD
                        /\ r.IS_TFA = TRUE
                        /\ r.GL_CODE = FastenerTools}
    IN  { [ PARENTNAME |-> AnyRow(G).PARENTNAME,
            REGION     |-> AnyRow(G).PRICE_BRANCH_REGION,
            TFA_NET_GP |-> SumGP(G) ] :
          G \in {H \in Groups(S, {"PARENTNAME"}) : SumGP(H) < LossThreshold} }

CteTFA(D, C) ==
    LET S == {r \in D : /\ r.PERIOD_MONTH = C.CURRENT_PERIOD
                        /\ r.IS_TFA = TRUE
                        /\ r.GL_CODE = FastenerTools}
    IN  { [ PARENTNAME |-> AnyRow(G).PARENTNAME,
            REGION     |-> AnyRow(G).PRICE_BRANCH_REGION,
            TFA_NET_GP |-> SumGP(G) ] :
          G \in {H \in Groups(S, {"PARENTNAME", "PRICE_BRANCH_REGION"}) :
                   SumGP(H) < LossThreshold} }

\* The WHERE of CUR and of PRI, for the period it is given.
CoreOfPeriod(r, period) ==
    /\ r.PERIOD_MONTH = period
    /\ ~r.IS_TFA /\ ~r.IS_SERVICE /\ ~r.IS_PERIOD_CROSSOVER

\* WITH CUR AS (...): core revenue and margin of the current period.
CteCUR(D, C) ==
    LET S == {r \in D : CoreOfPeriod(r, C.CURRENT_PERIOD)}
    IN  { [ PARENTNAME   |-> AnyRow(G).PARENTNAME,
            CORE_REVENUE |-> SumSales(G),
            CORE_MARGIN  |-> MarginPct(SumGP(G), SumSales(G)) ] :
          G \in Groups(S, {"PARENTNAME"}) }

\* WITH PRI AS (...): core revenue of the comparison period.
CtePRI(D, C) ==
    LET S == {r \in D : CoreOfPeriod(r, C.COMPARISON_PERIOD)}
    IN  { [ PARENTNAME    |-> AnyRow(G).PARENTNAME,
            PRIOR_REVENUE |-> SumSales(G) ] :
          G \in Groups(S, {"PARENTNAME"}) }

\* LEFT JOIN side ON T.PARENTNAME = side.PARENTNAME: <<>> when nothing
\* matches (every column of the side is then NULL), else <<the row>>.
\* CUR and PRI hold at most one row per PARENTNAME.
LeftJoin(side, name) ==
    IF \E x \in side : x.PARENTNAME = name
    THEN << CHOOSE x \in side : x.PARENTNAME = name >>
    ELSE <<>>

\* Variants of the CASE: ">=" for ">", and the zero-revenue test put first.
RevenueStatusGE(c, p) ==
    LET cur == IF c = <<>> THEN 0 ELSE c[1].CORE_REVENUE
        pri == IF p = <<>> THEN 0 ELSE p[1].PRIOR_REVENUE
    IN  IF p = <<>> THEN "New Account"
        ELSE IF cur = 0 THEN "No Revenue Yet"
        ELSE IF cur >= pri THEN "Growing"
        ELSE "Flat / Declining"

RevenueStatusZeroFirst(c, p) ==
    LET cur == IF c = <<>> THEN 0 ELSE c[1].CORE_REVENUE
        pri == IF p = <<>> THEN 0 ELSE p[1].PRIOR_REVENUE
    IN  IF cur = 0 THEN "No Revenue Yet"
        ELSE IF p = <<>> THEN "New Account"
        ELSE IF cur > pri THEN "Growing"
        ELSE "Flat / Declining"

\* The CASE ... END AS REVENUE_STATUS; c and p are the joined CUR and PRI.
RevenueStatus(c, p) ==
    LET cur == IF c = <<>> THEN 0 ELSE c[1].CORE_REVENUE
        pri == IF p = <<>> THEN 0 ELSE p[1].PRIOR_REVENUE
    IN  IF p = <<>> THEN "New Account"
        ELSE IF cur = 0 THEN "No Revenue Yet"
        ELSE IF cur > pri THEN "Growing"
        ELSE "Flat / Declining"

\* COALESCE(C.CORE_MARGIN, 0) AS CURRENT_MARGIN_PCT
CurrentMarginPct(c) ==
    Some(Coalesce(IF c = <<>> THEN Null ELSE c[1].CORE_MARGIN, 0))

TfaSelect(T, c, p) ==
    [ CUSTOMER           |-> T.PARENTNAME,
      REGION             |-> T.REGION,
      PLACEMENT_COST     |-> Abs(T.TFA_NET_GP),
      CURRENT_REVENUE    |-> IF c = <<>> THEN 0 ELSE c[1].CORE_REVENUE,
      CURRENT_MARGIN_PCT |-> CurrentMarginPct(c),
      PRIOR_REVENUE      |-> IF p = <<>> THEN 0 ELSE p[1].PRIOR_REVENUE,
      REVENUE_STATUS     |-> RevenueStatus(c, p) ]

\* The statement of get_tfa_conversion_status on the data (D, C):
\* ... FROM TFA T LEFT JOIN CUR C ... LEFT JOIN PRI P ... ORDER BY T.TFA_NET_GP ASC
TfaConversionSorted(D, C) ==
    { [ key |-> <<Asc(T.TFA_NET_GP)>>,
        row |-> TfaSelect(T, LeftJoin(CteCUR(D, C), T.PARENTNAME),
                             LeftJoin(CtePRI(D, C), T.PARENTNAME)) ] :
      T \in CteTFA(D, C) }

TfaConversionResults(D, C) == Unlimited(TfaConversionSorted(D, C))

TfaStmt == [sql |-> [name |-> "tfa_conversion_status"], params |-> <<>>]

GetTfaConversionStatus ==
    /\ Idle
    /\ \E out \in RunQuery(TfaConversionResults(db, cfg)) :
         resp' = Response("tfa_conversion_status", <<>>, TfaStmt, out)
    /\ UNCHANGED <<db, cfg, today, prev, run>>

----------------------------------------------------------------------------
(* The Filter Builder of get_top_customers and get_product_performance.    *)
(* where_clauses is a list of predicate fragments, params the list of      *)
(* bound values; a fragment is [kind, cols] and holds as many %s markers   *)
(* as Placeholders says, in the order of cols.                             *)

NotFlag(col)        == [kind |-> "not",        cols |-> <<col>>]  \* NOT col
Positive(col)       == [kind |-> "gt0",        cols |-> <<col>>]  \* col > 0
EqParam(col)        == [kind |-> "eq",         cols |-> <<col>>]  \* col = %s
UpperEqParam(col)   == [kind |-> "upper_eq",   cols |-> <<col>>]  \* UPPER(col) = UPPER(%s)
LikeAnyParam(cols)  == [kind |-> "like_any",   cols |-> cols]     \* UPPER(c1) LIKE UPPER(%s) OR ...
\* col = (SELECT CURRENT_PERIOD FROM NETSUITE.FINANCIALS.REPORT_CONTROL)
EqCurrentPeriod(col) == [kind |-> "eq_current", cols |-> <<col>>]

Placeholders(f) ==
    IF f.kind \in {"eq", "upper_eq", "like_any"} THEN Len(f.cols) ELSE 0

\* The columns the %s markers of a WHERE are compared with, in text order.
RECURSIVE WhereSlots(_)
WhereSlots(w) ==
    IF w = <<>> THEN <<>>
    ELSE (IF Placeholders(Head(w)) = 0 THEN <<>> ELSE Head(w).cols)
           \o WhereSlots(Tail(w))

\* All the %s markers of a statement, in text order: the WHERE, then LIMIT %s.
Slots(sql) == WhereSlots(sql.where) \o <<"LIMIT">>

\* A clamp that forgets the lower bound.
ClampUpperOnly(lo, hi, x) == Min2(hi, x)

Clamp(lo, hi, x) == Max2(lo, Min2(hi, x))

\* The exclusion list without the crossover predicate.
ExclusionsWithoutCrossover == <<NotFlag("IS_TFA"), NotFlag("IS_SERVICE")>>

CoreExclusions == <<NotFlag("IS_TFA"), NotFlag("IS_SERVICE"), NotFlag("IS_PERIOD_CROSSOVER")>>

\* A period clause that adds no predicate when the period is omitted.
PeriodClauseNoDefault(period_month) ==
    IF Truthy(period_month)
    THEN [where |-> <<EqParam("PERIOD_MONTH")>>, params |-> <<period_month>>]
    ELSE [where |-> <<>>, params |-> <<>>]

\* Each optional parameter contributes the fragments it appends to
\* where_clauses and the values it appends to params.
\* The handler with the period argument never looked at.
PeriodClauseIgnored(period_month) ==
    [where |-> <<EqCurrentPeriod("PERIOD_MONTH")>>, params |-> <<>>]

PeriodClause(period_month) ==
    IF Truthy(period_month)
    THEN [where |-> <<EqParam("PERIOD_MONTH")>>, params |-> <<period_month>>]
    ELSE [where |-> <<EqCurrentPeriod("PERIOD_MONTH")>>, params |-> <<>>]

RegionClause(region) ==
    IF Truthy(region)
    THEN [where |-> <<UpperEqParam("PRICE_BRANCH_REGION")>>, params |-> <<region>>]
    ELSE [where |-> <<>>, params |-> <<>>]

ChannelClause(channel) ==
    IF Truthy(channel)
    THEN [where |-> <<UpperEqParam("CUSTOMER_TYPE")>>, params |-> <<channel>>]
    ELSE [where |-> <<>>, params |-> <<>>]

\* A search clause that binds the wildcarded text twice for three markers.
SearchClauseTwice(product_search) ==
    IF Truthy(product_search)
    THEN LET pct == Wildcarded(product_search)
         IN  [ where  |-> <<LikeAnyParam(<<"ITEM_SN2", "ITEM_NAME", "MASTER2">>)>>,
               params |-> <<pct, pct>> ]
    ELSE [where |-> <<>>, params |-> <<>>]

SearchClause(product_search) ==
    IF Truthy(product_search)
    THEN LET pct == Wildcarded(product_search)
         IN  [ where  |-> <<LikeAnyParam(<<"ITEM_SN2", "ITEM_NAME", "MASTER2">>)>>,
               params |-> <<pct, pct, pct>> ]
    ELSE [where |-> <<>>, params |-> <<>>]

TopCustomersFixed == CoreExclusions
ProductFixed == CoreExclusions \o <<Positive("SALES_AMT")>>

TopCustomersLimit(limit) == Clamp(1, 100, limit)
ProductLimit(limit) == Clamp(1, 50, limit)

TopCustomersStmt(period_month, region, channel, limit) ==
    LET p == PeriodClause(period_month)
        r == RegionClause(region)
        c == ChannelClause(channel)
    IN  [ sql    |-> [ name  |-> "top_customers",
                       where |-> TopCustomersFixed \o p.where \o r.where \o c.where ],
          params |-> p.params \o r.params \o c.params \o <<TopCustomersLimit(limit)>> ]

ProductStmt(product_search, period_month, limit) ==
    LET p == PeriodClause(period_month)
        s == SearchClause(product_search)
    IN  [ sql    |-> [ name  |-> "product_performance",
                       where |-> ProductFixed \o p.where \o s.where ],
          params |-> p.params \o s.params \o <<ProductLimit(limit)>> ]

----------------------------------------------------------------------------
(* The engine's side of a filter-built statement                           *)

\* One fragment on row r, vals its bound values, C the REPORT_CONTROL row.
FragHolds(r, f, vals, C) ==
    LET col == f.cols[1]
    IN  CASE f.kind = "not"        -> ~r[col]
          [] f.kind = "gt0"        -> r[col] > 0
          [] f.kind = "eq"         -> r[col] = vals[1]
          [] f.kind = "eq_current" -> r[col] = C.CURRENT_PERIOD
          [] f.kind = "upper_eq"   -> Upper(r[col]) = Upper(vals[1])
          [] f.kind = "like_any"   ->
                \E i \in 1..Len(f.cols) : Like(Upper(r[f.cols[i]]), Upper(vals[i]))

\* The conjunction (" AND ".join) of the fragments w, the bound values ps
\* taken positionally.
RECURSIVE WhereHolds(_, _, _, _)
WhereHolds(r, w, ps, C) ==
    IF w = <<>> THEN TRUE
    ELSE LET n == Placeholders(Head(w))
         IN  /\ FragHolds(r, Head(w), SubSeq(ps, 1, n), C)
             /\ WhereHolds(r, Tail(w), SubSeq(ps, n + 1, Len(ps)), C)

TopCustomersSelect(G) ==
    [ PARENTNAME        |-> AnyRow(G).PARENTNAME,
      CUSTOMER_TYPE     |-> AnyRow(G).CUSTOMER_TYPE,
      CUSTOMER_SUBTYPE  |-> AnyRow(G).CUSTOMER_SUBTYPE,
      CUSTOMER_TIER     |-> AnyRow(G).CUSTOMER_TIER,
      REGION            |-> AnyRow(G).PRICE_BRANCH_REGION,
      REVENUE           |-> SumSales(G),
      COGS              |-> SumCogs(G),
      GP                |-> SumGP(G),
      MARGIN_PCT        |-> MarginPct(SumGP(G), SumSales(G)),
      DISTINCT_PRODUCTS |-> Cardinality({r.ITEM_SN2 : r \in G}) ]

ProductSelect(G) ==
    [ ITEM_SN2       |-> AnyRow(G).ITEM_SN2,
      ITEM_NAME      |-> AnyRow(G).ITEM_NAME,
      MASTER2        |-> AnyRow(G).MASTER2,
      GL_CODE        |-> AnyRow(G).GL_CODE,
      REVENUE        |-> SumSales(G),
      COGS           |-> SumCogs(G),
      GP             |-> SumGP(G),
      MARGIN_PCT     |-> MarginPct(SumGP(G), SumSales(G)),
      TOTAL_QTY      |-> SumF(G, [r \in G |-> r.SALES_QTY]),
      CUSTOMER_COUNT |-> Cardinality({r.PARENTNAME : r \in G}) ]

TopCustomersKeys == {"PARENTNAME", "CUSTOMER_TYPE", "CUSTOMER_SUBTYPE",
                     "CUSTOMER_TIER", "PRICE_BRANCH_REGION"}
ProductKeys == {"ITEM_SN2", "ITEM_NAME", "MASTER2", "GL_CODE"}

\* The results the engine may return for a filter-built statement.  The
\* driver substitutes params into the %s markers one for one; a list that
\* does not fit the markers makes the statement fail (no result at all).
\* WHERE ... GROUP BY ..., each group with its ORDER BY SUM(SALES_AMT) DESC key.
FilterSorted(stmt, D, C) ==
    LET wp == SubSeq(stmt.params, 1, Len(stmt.params) - 1)
        S  == {r \in D : WhereHolds(r, stmt.sql.where, wp, C)}
    IN  IF stmt.sql.name = "top_customers"
        THEN { [key |-> <<Desc(SumSales(G))>>, row |-> TopCustomersSelect(G)] :
               G \in Groups(S, TopCustomersKeys) }
        ELSE { [key |-> <<Desc(SumSales(G))>>, row |-> ProductSelect(G)] :
               G \in Groups(S, ProductKeys) }

FilterResults(stmt, D, C) ==
    IF Len(stmt.params) # Len(Slots(stmt.sql)) THEN {}
    ELSE Limited(FilterSorted(stmt, D, C), stmt.params[Len(stmt.params)])

\* TOOL 11
GetTopCustomers(period_month, region, channel, limit) ==
    /\ Idle
    /\ LET stmt == TopCustomersStmt(period_month, region, channel, limit)
       IN  \E out \in RunQuery(FilterResults(stmt, db, cfg)) :
             resp' = Response("top_customers",
                              [period_month |-> period_month, region |-> region,
                               channel |-> channel, limit |-> limit], stmt, out)
    /\ UNCHANGED <<db, cfg, today, prev, run>>

\* TOOL 12
GetProductPerformance(product_search, period_month, limit) ==
    /\ Idle
    /\ LET stmt == ProductStmt(product_search, period_month, limit)
       IN  \E out \in RunQuery(FilterResults(stmt, db, cfg)) :
             resp' = Response("product_performance",
                              [product_search |-> product_search,
                               period_month |-> period_month, limit |-> limit], stmt, out)
    /\ UNCHANGED <<db, cfg, today, prev, run>>

----------------------------------------------------------------------------
(* TOOL 2 -- get_margin_history, TOOL 9 -- get_account_history             *)

HistoryMonths(months) == Clamp(1, 24, months)

MarginHistoryStmt(months) ==
    [ sql    |-> [name |-> "margin_history", where |-> <<>>],
      params |-> <<HistoryMonths(months)>> ]

AccountHistoryStmt(account_name, months) ==
    [ sql    |-> [name |-> "account_history", where |-> <<>>],
      params |-> <<Wildcarded(account_name), HistoryMonths(months)>> ]

\* TO_VARCHAR(DATEADD('month', -%s, DATE_TRUNC('month', CURRENT_DATE())), 'YYYY-MM')
\* with n substituted for %s.
Cutoff(n, now) == ToVarcharYYYYMM(DateAddMonths(now, -n))

MarginHistorySelect(G) ==
    LET core == {r \in G : ~r.IS_TFA /\ ~r.IS_SERVICE /\ ~r.IS_PERIOD_CROSSOVER}
        tfa  == {r \in G : r.IS_TFA}
    IN  [ PERIOD_MONTH       |-> AnyRow(G).PERIOD_MONTH,
          ROW_COUNT          |-> Cardinality(G),
          REVENUE            |-> SumSales(G),
          COGS               |-> SumCogs(G),
          GP                 |-> SumGP(G),
          BLENDED_MARGIN_PCT |-> MarginPct(SumGP(G), SumSales(G)),
          CORE_MARGIN_PCT    |-> MarginPct(SumGP(core), SumSales(core)),
          TFA_DRAG_PP        |-> MarginPct(SumGP(tfa), SumSales(G)) ]

\* The text "-%s" with a negative number substituted starts a SQL comment
\* ("--"), which leaves the statement unparsable.
MarginHistorySorted(stmt, D, now) ==
    LET n == stmt.params[1]
        S == {r \in D : LexGE(r.PERIOD_MONTH, Cutoff(n, now))}
    IN  { [key |-> <<DescT(AnyRow(G).PERIOD_MONTH)>>, row |-> MarginHistorySelect(G)] :
          G \in Groups(S, {"PERIOD_MONTH"}) }

MarginHistoryResults(stmt, D, now) ==
    IF stmt.params[1] < 0 THEN {}
    ELSE Unlimited(MarginHistorySorted(stmt, D, now))

AccountHistorySelect(G) ==
    [ PERIOD_MONTH      |-> AnyRow(G).PERIOD_MONTH,
      PARENTNAME        |-> AnyRow(G).PARENTNAME,
      CUSTOMER_TYPE     |-> AnyRow(G).CUSTOMER_TYPE,
      CUSTOMER_SUBTYPE  |-> AnyRow(G).CUSTOMER_SUBTYPE,
      CUSTOMER_TIER     |-> AnyRow(G).CUSTOMER_TIER,
      REGION            |-> AnyRow(G).PRICE_BRANCH_REGION,
      REVENUE           |-> SumSales(G),
      COGS              |-> SumCogs(G),
      GP                |-> SumGP(G),
      MARGIN_PCT        |-> MarginPct(SumGP(G), SumSales(G)),
      TFA_GP            |-> SumGP({r \in G : r.IS_TFA}),
      DISTINCT_PRODUCTS |-> Cardinality({r.ITEM_SN2 : r \in G}),
      TOTAL_QTY         |-> SumF(G, [r \in G |-> r.SALES_QTY]) ]

AccountHistoryKeys == {"PERIOD_MONTH", "PARENTNAME", "CUSTOMER_TYPE", "CUSTOMER_SUBTYPE",
                       "CUSTOMER_TIER", "PRICE_BRANCH_REGION"}

AccountHistorySorted(stmt, D, now) ==
    LET pat == stmt.params[1]
        n   == stmt.params[2]
        S   == {r \in D : /\ Like(Upper(r.PARENTNAME), Upper(pat))
                          /\ LexGE(r.PERIOD_MONTH, Cutoff(n, now))
                          /\ ~r.IS_TFA
                          /\ ~r.IS_SERVICE}
    IN  { [key |-> <<DescT(AnyRow(G).PERIOD_MONTH), Desc(SumSales(G))>>,
           row |-> AccountHistorySelect(G)] :
          G \in Groups(S, AccountHistoryKeys) }

AccountHistoryResults(stmt, D, now) ==
    IF stmt.params[2] < 0 THEN {}
    ELSE Unlimited(AccountHistorySorted(stmt, D, now))

GetMarginHistory(months) ==
    /\ Idle
    /\ LET stmt == MarginHistoryStmt(months)
       IN  \E out \in RunQuery(MarginHistoryResults(stmt, db, today)) :
             resp' = Response("margin_history", [months |-> months], stmt, out)
    /\ UNCHANGED <<db, cfg, today, prev, run>>

GetAccountHistory(account_name, months) ==
    /\ Idle
    /\ LET stmt == AccountHistoryStmt(account_name, months)
       IN  \E out \in RunQuery(AccountHistoryResults(stmt, db, today)) :
             resp' = Response("account_history",
                              [account_name |-> account_name, months |-> months], stmt, out)
    /\ UNCHANGED <<db, cfg, today, prev, run>>

\* The engine: every result sequence it may return for a statement.
Execute(stmt, D, C, now) ==
    IF stmt.sql.name = "margin_history" THEN MarginHistoryResults(stmt, D, now)
    ELSE IF stmt.sql.name = "account_history" THEN AccountHistoryResults(stmt, D, now)
    ELSE IF stmt.sql.name = "tfa_conversion_status" THEN TfaConversionResults(D, C)
    ELSE FilterResults(stmt, D, C)
----------------------------------------------------------------------------
(* Data for the conversion classifier                                      *)

MaxTfaRows == 3

Placements ==
    { FactRow(P02, cr[1], DLR, cr[2], JH1, FastenerTools, 0, cost, TRUE, FALSE, FALSE) :
        cr \in {<<AC, TX>>, <<AC, EA>>, <<BO, TX>>}, cost \in {300, 500, 600} }

CoreLines ==
    { FactRow(p, c, DLR, TX, PT3, OtherGL, s, 60, FALSE, FALSE, FALSE) :
        p \in {P01, P02}, c \in {AC, BO}, s \in {-100, 0, 100, 150} }

\* Lines every core aggregate must leave out, and a placement under another
\* GL code.
NonCoreLines ==
    { FactRow(p, AC, DLR, TX, PT3, OtherGL, 100, 60, f[1], f[2], f[3]) :
        p \in {P01, P02},
        f \in {<<TRUE, FALSE, FALSE>>, <<FALSE, TRUE, FALSE>>, <<FALSE, FALSE, TRUE>>} }
      \cup { FactRow(P02, AC, DLR, TX, JH1, OtherGL, 0, 600, TRUE, FALSE, FALSE) }

TfaUniverse == Placements \cup CoreLines \cup NonCoreLines

\* The subsets of U with at most n elements.
RECURSIVE UpTo(_, _)
UpTo(U, n) ==
    IF n = 0 THEN {{}}
    ELSE LET P == UpTo(U, n - 1)
         IN  P \cup { S \cup {x} : S \in P, x \in U }

Feb2026 == [y |-> 2026, m |-> 2]

InitTfa ==
    /\ db \in UpTo(TfaUniverse, MaxTfaRows)
    /\ cfg \in { [CURRENT_PERIOD |-> P02, COMPARISON_PERIOD |-> P01] }
    /\ today = Feb2026
    /\ resp = NoResp
    /\ prev = NoResp
    /\ NoCalls

NextTfa == GetTfaConversionStatus \/ Deliver

SpecTfa == InitTfa /\ [][NextTfa]_vars

----------------------------------------------------------------------------
(* Data and inputs for the filter-built operations                         *)

MaxFilterRows == 2

\* Customers keep their channel and region: AC is a TX dealer, BO an EA
\* industrial account.
CustomerLine(c, p, item, s, tfa, svc, xo) ==
    IF c = AC THEN FactRow(p, AC, DLR, TX, item, OtherGL, s, 60, tfa, svc, xo)
    ELSE FactRow(p, c, IND, EA, item, OtherGL, s, 60, tfa, svc, xo)

FilterUniverse ==
    { CustomerLine(c, p, i, s, FALSE, FALSE, FALSE) :
        c \in {AC, BO}, p \in {P01, P02}, i \in {JH1, PT3}, s \in {100, 200} }
      \cup { CustomerLine(AC, P02, JH1, s, FALSE, FALSE, FALSE) : s \in {-100, 0} }
      \cup { CustomerLine(AC, P02, JH1, 100, f[1], f[2], f[3]) :
               f \in {<<TRUE, FALSE, FALSE>>, <<FALSE, TRUE, FALSE>>, <<FALSE, FALSE, TRUE>>} }
      \cup { FactRow(P02, AC, DLR, TX, JH1, FastenerTools, 0, 600, TRUE, FALSE, FALSE) }

PeriodInputs  == {None, <<>>, P01, P02, BadPeriod}
RegionInputs  == {None, <<116, 120>>}                  \* "tx"
ChannelInputs == {None, <<100, 108, 114>>}             \* "dlr"
SearchInputs  == {None, <<>>, <<106, 104>>, <<95>>}    \* "jh", "_"
LimitInputs   == {0, 2, 101}

InitFilter ==
    /\ db \in UpTo(FilterUniverse, MaxFilterRows)
    /\ cfg \in { [CURRENT_PERIOD |-> P02, COMPARISON_PERIOD |-> P01],
                 [CURRENT_PERIOD |-> P01, COMPARISON_PERIOD |-> P02] }
    /\ today = Feb2026
    /\ resp = NoResp
    /\ prev = NoResp
    /\ NoCalls

NextFilter ==
    \/ \E p \in PeriodInputs, r \in RegionInputs, c \in ChannelInputs, n \in LimitInputs :
         GetTopCustomers(p, r, c, n)
    \/ \E s \in SearchInputs, p \in PeriodInputs, n \in LimitInputs :
         GetProductPerformance(s, p, n)
    \/ GetTfaConversionStatus
    \/ Deliver

SpecFilter == InitFilter /\ [][NextFilter]_vars

----------------------------------------------------------------------------
(* Integer inputs around and inside the clamp ranges                       *)

Overshoot == 3

IntInputs == (0 - Overshoot)..(100 + Overshoot)

\* One line per month from 2025-12 to 2026-03, and a line of another customer.
HistoryUniverse ==
    { FactRow(ToVarcharYYYYMM(DateAddMonths(Feb2026, k)), AC, DLR, TX, JH1, OtherGL,
              100, 60, FALSE, FALSE, FALSE) : k \in -2..1 }
      \cup { FactRow(P02, BO, IND, EA, PT3, OtherGL, 200, 60, FALSE, FALSE, FALSE) }

InitClamp ==
    /\ db \in UpTo(HistoryUniverse, 1)
    /\ cfg = [CURRENT_PERIOD |-> P02, COMPARISON_PERIOD |-> P01]
    /\ today = Feb2026
    /\ resp = NoResp
    /\ prev = NoResp
    /\ NoCalls

NextClamp ==
    \/ \E n \in IntInputs : GetMarginHistory(n)
    \/ \E n \in IntInputs : GetAccountHistory(<<97, 99>>, n)
    \/ \E n \in IntInputs : GetTopCustomers(None, None, None, n)
    \/ \E n \in IntInputs : GetProductPerformance(None, None, n)
    \/ Deliver

SpecClamp == InitClamp /\ [][NextClamp]_vars

----------------------------------------------------------------------------
(* Properties of the conversion classifier                                 *)

Ok(name) == resp.op = name /\ resp.status = "ok"
Rows == {resp.rows[i] : i \in 1..Len(resp.rows)}

Labels == {"New Account", "No Revenue Yet", "Growing", "Flat / Declining"}

\* The fact lines behind an entity's core aggregate of one period.
CoreLinesOf(c, period) ==
    {r \in db : r.PARENTNAME = c /\ r.PERIOD_MONTH = period /\ IsCore(r)}
PriorLines(c)   == CoreLinesOf(c, cfg.COMPARISON_PERIOD)
CurrentLines(c) == CoreLinesOf(c, cfg.CURRENT_PERIOD)

FirstMatchLabel(c) ==
    IF PriorLines(c) = {} THEN "New Account"
    ELSE IF SumSales(CurrentLines(c)) = 0 THEN "No Revenue Yet"
    ELSE IF SumSales(CurrentLines(c)) > SumSales(PriorLines(c)) THEN "Growing"
    ELSE "Flat / Declining"

\* C1: every entity in the result of tfa-conversion-status carries exactly
\* one of the four labels, the first that matches in the order: no prior-period
\* core line -> New Account; current core revenue 0 -> No Revenue Yet; current
\* above prior -> Growing; else Flat / Declining.
C1_FirstMatchLabel ==
    Ok("tfa_conversion_status") =>
      \A row \in Rows :
        /\ row.REVENUE_STATUS \in Labels
        /\ row.REVENUE_STATUS = FirstMatchLabel(row.CUSTOMER)
        /\ \A other \in Rows :
             other.CUSTOMER = row.CUSTOMER => other.REVENUE_STATUS = row.REVENUE_STATUS

\* Prior 100 / current 150 came out Growing.
C1_Witness ==
    /\ Ok("tfa_conversion_status")
    /\ \E row \in Rows : /\ row.PRIOR_REVENUE = 100
                         /\ row.CURRENT_REVENUE = 150
                         /\ row.REVENUE_STATUS = "Growing"

\* C2 as stated: zero prior core revenue and zero current core revenue always
\* give New Account, whether the prior lines are absent or sum to zero.
C2_ZeroPriorIsNewAccount ==
    Ok("tfa_conversion_status") =>
      \A row \in Rows :
        (SumSales(PriorLines(row.CUSTOMER)) = 0 /\ SumSales(CurrentLines(row.CUSTOMER)) = 0)
          => row.REVENUE_STATUS = "New Account"

\* C2 amended: with zero current core revenue, an entity with no prior-period
\* core line is New Account, and an entity that has prior-period core lines
\* (also when they sum to zero) is No Revenue Yet.
C2_AbsentPriorIsNewAccount ==
    Ok("tfa_conversion_status") =>
      \A row \in Rows :
        SumSales(CurrentLines(row.CUSTOMER)) = 0 =>
          /\ PriorLines(row.CUSTOMER) = {} => row.REVENUE_STATUS = "New Account"
          /\ PriorLines(row.CUSTOMER) # {} => row.REVENUE_STATUS = "No Revenue Yet"

\* An entity without prior lines and without current revenue was classified.
C2_Witness ==
    /\ Ok("tfa_conversion_status")
    /\ \E row \in Rows : /\ PriorLines(row.CUSTOMER) = {}
                         /\ CurrentLines(row.CUSTOMER) # {}
                         /\ SumSales(CurrentLines(row.CUSTOMER)) = 0
                         /\ row.REVENUE_STATUS = "New Account"

\* Prior lines that sum to zero, no current revenue: No Revenue Yet.
ZeroSumPriorReached ==
    /\ Ok("tfa_conversion_status")
    /\ \E row \in Rows : /\ PriorLines(row.CUSTOMER) # {}
                         /\ SumSales(PriorLines(row.CUSTOMER)) = 0
                         /\ row.REVENUE_STATUS = "No Revenue Yet"

----------------------------------------------------------------------------
(* Margin percentages                                                      *)

\* The revenue sum a reported margin percentage divides by, and the margin.
RowRevenue(row) ==
    IF resp.op = "tfa_conversion_status" THEN row.CURRENT_REVENUE ELSE row.REVENUE
RowMargin(row) ==
    IF resp.op = "tfa_conversion_status" THEN row.CURRENT_MARGIN_PCT
    ELSE IF resp.op = "margin_history" THEN row.BLENDED_MARGIN_PCT
    ELSE row.MARGIN_PCT

MarginOps == {"margin_history", "account_history", "top_customers",
              "product_performance", "tfa_conversion_status"}

\* C6: a result row whose revenue sum is 0 reports its margin percentage as
\* null, in every operation that computes one.
C6_NullMarginAtZeroRevenue ==
    (resp.op \in MarginOps /\ resp.status = "ok") =>
      \A row \in Rows : RowRevenue(row) = 0 => RowMargin(row) = Null

\* The same for the operations other than tfa-conversion-status.
NullMarginElsewhere ==
    (resp.op \in MarginOps \ {"tfa_conversion_status"} /\ resp.status = "ok") =>
      \A row \in Rows : RowRevenue(row) = 0 => RowMargin(row) = Null

ZeroRevenueRowReached ==
    /\ resp.op \in MarginOps \ {"tfa_conversion_status"} /\ resp.status = "ok"
    /\ \E row \in Rows : RowRevenue(row) = 0

----------------------------------------------------------------------------
(* Properties of the Filter Builder                                        *)

ClampOps == {"margin_history", "account_history", "top_customers", "product_performance"}

ClampRange(op) ==
    IF op \in {"margin_history", "account_history"} THEN <<1, 24>>
    ELSE IF op = "top_customers" THEN <<1, 100>>
    ELSE <<1, 50>>

\* The integer the caller supplied and the one the statement was given.
SuppliedInt ==
    IF resp.op \in {"margin_history", "account_history"}
    THEN resp.args.months ELSE resp.args.limit
BoundInt == resp.params[Len(resp.params)]

RespStmt == [sql |-> resp.sql, params |-> resp.params]

\* C3: the months or limit bound into the statement lies in the operation's
\* range, is the input when that is in range and the nearest bound otherwise,
\* and the statement built from it is one the engine runs.
C3_ClampedIntoRange ==
    resp.op \in ClampOps =>
      LET lo == ClampRange(resp.op)[1]
          hi == ClampRange(resp.op)[2]
          x  == SuppliedInt
      IN  /\ BoundInt \in lo..hi
          /\ x \in lo..hi => BoundInt = x
          /\ x < lo => BoundInt = lo
          /\ x > hi => BoundInt = hi
          /\ Execute(RespStmt, db, cfg, today) # {}

\* A limit below the range and a months above it went through, clamped.
C3_Witness ==
    \/ /\ Ok("product_performance") /\ resp.args.limit = -1 /\ BoundInt = 1
    \/ /\ Ok("margin_history") /\ resp.args.months = 25 /\ BoundInt = 24
       /\ Len(resp.rows) > 0

FilterOps == {"top_customers", "product_performance"}

Supplied(arg) == arg \in DOMAIN resp.args /\ Truthy(resp.args[arg])

\* The markers a filter-built statement must hold, in text order, for the
\* parameters the caller supplied.
ExpectedSlots ==
    (IF Supplied("period_month") THEN <<"PERIOD_MONTH">> ELSE <<>>)
      \o (IF Supplied("region") THEN <<"PRICE_BRANCH_REGION">> ELSE <<>>)
      \o (IF Supplied("channel") THEN <<"CUSTOMER_TYPE">> ELSE <<>>)
      \o (IF Supplied("product_search")
          THEN <<"ITEM_SN2", "ITEM_NAME", "MASTER2">> ELSE <<>>)
      \o <<"LIMIT">>

\* The value the marker compared with column `slot` is meant to carry.
IntendedValue(slot) ==
    CASE slot = "PERIOD_MONTH"        -> resp.args.period_month
      [] slot = "PRICE_BRANCH_REGION" -> resp.args.region
      [] slot = "CUSTOMER_TYPE"       -> resp.args.channel
      [] slot \in {"ITEM_SN2", "ITEM_NAME", "MASTER2"}
                                      -> <<37>> \o resp.args.product_search \o <<37>>
      [] slot = "LIMIT"               ->
           Max2(ClampRange(resp.op)[1], Min2(ClampRange(resp.op)[2], resp.args.limit))

\* C4: the statement holds as many %s markers as there are bound values, and
\* the i-th value is the one meant for the i-th marker in text order.
C4_PlaceholderParity ==
    resp.op \in FilterOps =>
      /\ Len(resp.params) = Len(Slots(resp.sql))
      /\ Slots(resp.sql) = ExpectedSlots
      /\ \A i \in 1..Len(resp.params) :
           resp.params[i] = IntendedValue(Slots(resp.sql)[i])

\* A product search with an explicit period: five markers, five values, rows.
C4_Witness ==
    /\ Ok("product_performance")
    /\ Supplied("product_search") /\ Supplied("period_month")
    /\ Len(resp.params) = 5
    /\ Len(resp.rows) > 0

\* The statement the same handler builds with another period argument.
WithPeriod(period_month) ==
    IF resp.op = "top_customers"
    THEN TopCustomersStmt(period_month, resp.args.region, resp.args.channel, resp.args.limit)
    ELSE ProductStmt(resp.args.product_search, period_month, resp.args.limit)

\* C7: what top-customers and product-performance return with the period
\* omitted is a result of the call with the period set to REPORT_CONTROL's
\* current period, and the other way round.
C7_DefaultPeriod ==
    (resp.op \in FilterOps /\ resp.status = "ok") =>
      /\ resp.args.period_month = None =>
           resp.rows \in FilterResults(WithPeriod(cfg.CURRENT_PERIOD), db, cfg)
      /\ resp.args.period_month = cfg.CURRENT_PERIOD =>
           resp.rows \in FilterResults(WithPeriod(None), db, cfg)

\* A call without a period returned rows while the table also held core
\* lines of another period.
C7_Witness ==
    /\ Ok("top_customers")
    /\ resp.args.period_month = None
    /\ Len(resp.rows) > 0
    /\ \E r \in db : IsCore(r) /\ r.PERIOD_MONTH # cfg.CURRENT_PERIOD

\* The lines a core aggregate may read; the conversion tracker also reads
\* the placements of the current period (for its TFA part only).
CoreOnly == {r \in db : IsCore(r)}
CoreAndPlacements ==
    {r \in db : \/ IsCore(r)
                \/ (r.IS_TFA /\ r.GL_CODE = FastenerTools
                      /\ r.PERIOD_MONTH = cfg.CURRENT_PERIOD)}

\* C9: the three exclusions are in the filter whatever the caller passes, and
\* the result is one the statement gives on the table without its TFA,
\* service and crossover lines.
C9_ExclusionsAlwaysApplied ==
    /\ resp.op \in FilterOps =>
         \A col \in {"IS_TFA", "IS_SERVICE", "IS_PERIOD_CROSSOVER"} :
           \E i \in 1..Len(resp.sql.where) : resp.sql.where[i] = NotFlag(col)
    /\ (resp.op \in FilterOps /\ resp.status = "ok") =>
         resp.rows \in FilterResults(RespStmt, CoreOnly, cfg)
    /\ Ok("tfa_conversion_status") =>
         resp.rows \in TfaConversionResults(CoreAndPlacements, cfg)

\* Rows came back while the table held an excluded line of the period asked.
C9_Witness ==
    /\ Ok("top_customers")
    /\ ~Supplied("period_month")
    /\ Len(resp.rows) > 0
    /\ \E r \in db : ~IsCore(r) /\ r.PERIOD_MONTH = cfg.CURRENT_PERIOD /\ r.SALES_AMT > 0

----------------------------------------------------------------------------
(* Repeated invocations: the caller keeps one response and asks again.     *)
(* The fact table and REPORT_CONTROL never change; the calendar may move   *)
(* on between the two calls.                                               *)

MaxIdemRows == 2
MaxMonthsElapsed == 1

MonthsSince(a, b) == (b.y * 12 + b.m) - (a.y * 12 + a.m)

\* The first day of the next month arrives.
Tick ==
    /\ Idle
    /\ MonthsSince(Feb2026, today) < MaxMonthsElapsed
    /\ today' = DateAddMonths(today, 1)
    /\ UNCHANGED <<db, cfg, resp, prev, run>>

\* Two customers with the same revenue, two placements with the same loss,
\* and lines of earlier months.
IdemUniverse ==
    { CustomerLine(c, P02, JH1, 100, FALSE, FALSE, FALSE) : c \in {AC, BO} }
      \cup { CustomerLine(AC, p, PT3, 200, FALSE, FALSE, FALSE) : p \in {P01, P02} }
      \cup { FactRow(P02, AC, DLR, g, JH1, FastenerTools, 0, 600, TRUE, FALSE, FALSE) :
               g \in {TX, EA} }

InitIdem ==
    /\ db \in UpTo(IdemUniverse, MaxIdemRows)
    /\ cfg = [CURRENT_PERIOD |-> P02, COMPARISON_PERIOD |-> P01]
    /\ today = Feb2026
    /\ resp = NoResp
    /\ prev = NoResp
    /\ NoCalls

NextIdem ==
    \/ \E n \in {1, 20} : GetTopCustomers(None, None, None, n)
    \/ \E n \in {1, 20} : GetProductPerformance(None, None, n)
    \/ \E n \in {1, 6} : GetMarginHistory(n)
    \/ GetAccountHistory(<<>>, 1)
    \/ GetTfaConversionStatus
    \/ DeliverAndKeep
    \/ Tick

SpecIdem == InitIdem /\ [][NextIdem]_vars

\* The response at hand answers the same call as the one the caller kept.
Repeated ==
    /\ prev.op # "none" /\ resp.op = prev.op
    /\ resp.args = prev.args
    /\ prev.status = "ok" /\ resp.status = "ok"

\* C8 as stated: the same call on unchanged data returns the same rows in the
\* same order, ties and row limit included.
C8_SameRowsSameOrder == Repeated => resp.rows = prev.rows

HistoryOps == {"margin_history", "account_history"}

\* The ORDER BY key of a returned row.
RankOf(op, row) ==
    IF op = "tfa_conversion_status" THEN <<row.PLACEMENT_COST>>
    ELSE IF op = "margin_history" THEN row.PERIOD_MONTH
    ELSE IF op = "account_history" THEN row.PERIOD_MONTH \o <<row.REVENUE>>
    ELSE <<row.REVENUE>>

\* The groups the statement of a response sorts, each with its ORDER BY key.
Sorted(r) ==
    LET stmt == [sql |-> r.sql, params |-> r.params]
    IN  IF r.op = "margin_history" THEN MarginHistorySorted(stmt, db, r.at)
        ELSE IF r.op = "account_history" THEN AccountHistorySorted(stmt, db, r.at)
        ELSE IF r.op = "tfa_conversion_status" THEN TfaConversionSorted(db, cfg)
        ELSE FilterSorted(stmt, db, cfg)

NoTies(r) ==
    \A a, b \in Sorted(r) : a # b => (KeyLT(a.key, b.key) \/ KeyLT(b.key, a.key))

\* C8 amended: the same call on unchanged data (for margin-history and
\* account-history: within the same calendar month) returns as many rows, with
\* the same ORDER BY key at every position; the rows themselves are the same,
\* in the same order, when no two groups of the statement tie on that key.
C8_SameUpToTies ==
    (Repeated /\ (resp.op \in HistoryOps => resp.at = prev.at)) =>
      /\ Len(resp.rows) = Len(prev.rows)
      /\ \A i \in 1..Len(resp.rows) :
           RankOf(resp.op, resp.rows[i]) = RankOf(resp.op, prev.rows[i])
      /\ NoTies(resp) => resp.rows = prev.rows

\* top-customers asked twice with limit 1 while two customers tie: one
\* customer the first time, the other the second.
C8_Witness ==
    /\ Repeated
    /\ resp.op = "top_customers" /\ resp.args.limit = 1
    /\ ~NoTies(resp)
    /\ resp.rows # prev.rows

\* margin-history asked again a month later returns other rows.
ClockMovesWindow ==
    /\ Repeated /\ resp.op = "margin_history"
    /\ resp.at # prev.at
    /\ resp.rows # prev.rows

\* Without ties (and within the month) a repeated call did return rows again.
RepeatedUntiedReached ==
    /\ Repeated /\ NoTies(resp) /\ Len(resp.rows) > 1
    /\ resp.op \in HistoryOps => resp.at = prev.at

----------------------------------------------------------------------------
(* run_query step by step, for invocations running side by side.           *)
(*                                                                         *)
(*     conn = get_conn()                          pc = "get_conn"          *)
(*     try:                                                                *)
(*         cur = conn.cursor(DictCursor)          pc = "cursor"            *)
(*         cur.execute(sql, params)               pc = "execute"           *)
(*         return cur.fetchall()                  pc = "fetchall"          *)
(*     finally:                                                            *)
(*         conn.close()                           pc = "close"             *)
(*                                                                         *)
(* A frame of `calls` holds the locals of one invocation: its statement,   *)
(* its connection handle (0 before get_conn returns), the exception in     *)
(* flight and the value fetchall returned.  `failure`, `server` and        *)
(* `partial` record what the collaborator did: which step failed, the      *)
(* result set the engine produced, the rows that had arrived when a fetch  *)
(* broke off.  connect() and close() are the connector's; close() does not *)
(* raise.                                                                  *)

MaxCalls == 2

\* Where control goes when a statement inside the try block raises: the
\* finally clause.  The variant leaves the function at once.
OnErrorSkipClose == "raise"
OnErrorInTry == "close"

\* What the handler's caller gets: json.dumps(rows) of the rows fetchall
\* returned, or the exception, unchanged.  The variant turns a failure into
\* the rows that happened to arrive.
OutcomeSwallowsError(c) ==
    [status |-> "ok", error |-> "none",
     rows |-> IF c.exc = "none" THEN c.ret ELSE c.partial]
Outcome(c) ==
    IF c.exc = "none"
    THEN [status |-> "ok", error |-> "none", rows |-> c.ret]
    ELSE [status |-> "error", error |-> c.exc, rows |-> <<>>]

Pending == [status |-> "pending", error |-> "none", rows |-> <<>>]

Frame(stmt) ==
    [ stmt |-> stmt, pc |-> "get_conn", conn |-> 0, exc |-> "none", ret |-> <<>>,
      failure |-> "none", server |-> <<>>, partial |-> <<>>,
      queries |-> 1, connects |-> 0, executes |-> 0, out |-> Pending ]

InFlight == 1..Len(calls)
At(i, where) == i \in InFlight /\ calls[i].pc = where
Step(i, frame) == calls' = [calls EXCEPT ![i] = frame]
Fail(c, what, next) == [c EXCEPT !.exc = what, !.failure = what, !.pc = next]

\* A handler is invoked: it builds its statement and calls run_query once.
Invoke(stmt) ==
    /\ Len(calls) < MaxCalls
    /\ calls' = Append(calls, Frame(stmt))
    /\ UNCHANGED <<db, cfg, today, resp, prev, sessions>>

\* conn = get_conn(): a new session, or a connection error before the try.
GetConn(i) ==
    /\ At(i, "get_conn")
    /\ \/ /\ sessions' = Append(sessions, [owner |-> i, open |-> TRUE,
                                           closes |-> 0, closer |-> 0])
          /\ Step(i, [calls[i] EXCEPT !.conn = Len(sessions) + 1,
                                      !.connects = @ + 1, !.pc = "cursor"])
       \/ /\ Step(i, Fail([calls[i] EXCEPT !.connects = @ + 1], "connect", "raise"))
          /\ UNCHANGED sessions
    /\ UNCHANGED <<db, cfg, today, resp, prev>>

\* cur = conn.cursor(snowflake.connector.DictCursor)
Cursor(i) ==
    /\ At(i, "cursor")
    /\ \/ Step(i, [calls[i] EXCEPT !.pc = "execute"])
       \/ Step(i, Fail(calls[i], "cursor", OnErrorInTry))
    /\ UNCHANGED <<db, cfg, today, resp, prev, sessions>>

\* cur.execute(sql, params)
ExecuteStmt(i) ==
    /\ At(i, "execute")
    /\ \/ \E rs \in Execute(calls[i].stmt, db, cfg, today) :
            Step(i, [calls[i] EXCEPT !.executes = @ + 1, !.server = rs,
                                     !.pc = "fetchall"])
       \/ Step(i, Fail([calls[i] EXCEPT !.executes = @ + 1], "statement", OnErrorInTry))
    /\ UNCHANGED <<db, cfg, today, resp, prev, sessions>>

\* return cur.fetchall(): the whole result set, or an error after some rows.
Fetchall(i) ==
    /\ At(i, "fetchall")
    /\ \/ Step(i, [calls[i] EXCEPT !.ret = calls[i].server, !.pc = "close"])
       \/ \E k \in 0..Len(calls[i].server) :
            /\ k < Len(calls[i].server) \/ k = 0
            /\ Step(i, Fail([calls[i] EXCEPT !.partial = SubSeq(calls[i].server, 1, k)],
                            "fetch", OnErrorInTry))
    /\ UNCHANGED <<db, cfg, today, resp, prev, sessions>>

\* finally: conn.close()
Close(i) ==
    /\ At(i, "close")
    /\ sessions' = [sessions EXCEPT ![calls[i].conn] =
                      [@ EXCEPT !.open = FALSE, !.closes = @ + 1, !.closer = i]]
    /\ Step(i, [calls[i] EXCEPT !.pc = IF calls[i].exc = "none" THEN "return" ELSE "raise"])
    /\ UNCHANGED <<db, cfg, today, resp, prev>>

\* run_query returns to the handler, which returns json.dumps(rows), or the
\* exception leaves the handler.
Finish(i) ==
    /\ At(i, "return") \/ At(i, "raise")
    /\ Step(i, [calls[i] EXCEPT !.pc = "done", !.out = Outcome(calls[i])])
    /\ UNCHANGED <<db, cfg, today, resp, prev, sessions>>

RunUniverse ==
    { CustomerLine(AC, P02, JH1, 100, FALSE, FALSE, FALSE),
      CustomerLine(BO, P02, JH1, 100, FALSE, FALSE, FALSE) }

RunStatements == { TfaStmt, TopCustomersStmt(None, None, None, 20) }

InitRun ==
    /\ db \in UpTo(RunUniverse, 2)
    /\ cfg = [CURRENT_PERIOD |-> P02, COMPARISON_PERIOD |-> P01]
    /\ today = Feb2026
    /\ resp = NoResp
    /\ prev = NoResp
    /\ NoCalls

NextRun ==
    \/ \E stmt \in RunStatements : Invoke(stmt)
    \/ \E i \in InFlight : GetConn(i)
    \/ \E i \in InFlight : Cursor(i)
    \/ \E i \in InFlight : ExecuteStmt(i)
    \/ \E i \in InFlight : Fetchall(i)
    \/ \E i \in InFlight : Close(i)
    \/ \E i \in InFlight : Finish(i)

SpecRun == InitRun /\ [][NextRun]_vars

Ended(i) == calls[i].pc \in {"return", "raise", "done"}

\* C5: a session an invocation acquired is released exactly once before the
\* invocation ends, whether cursor, execute and fetchall succeed or fail, and
\* only by the invocation that acquired it.
C5_SessionReleasedOnce ==
    /\ \A h \in 1..Len(sessions) :
         /\ sessions[h].closes <= 1
         /\ sessions[h].open <=> sessions[h].closes = 0
         /\ sessions[h].closes = 1 => sessions[h].closer = sessions[h].owner
    /\ \A i \in InFlight :
         (Ended(i) /\ calls[i].conn # 0) =>
           /\ sessions[calls[i].conn].owner = i
           /\ sessions[calls[i].conn].closes = 1
           /\ ~sessions[calls[i].conn].open

\* An invocation ended on a statement failure with its session closed while
\* another one still holds an open session.
C5_Witness ==
    \E i, j \in InFlight :
      /\ i # j
      /\ calls[i].pc = "done" /\ calls[i].failure = "statement"
      /\ calls[i].conn # 0 /\ sessions[calls[i].conn].closes = 1
      /\ calls[j].conn # 0 /\ sessions[calls[j].conn].open

\* C10: an invocation calls run_query once, which connects once and executes
\* at most once; a failure of any step reaches the caller as that failure,
\* with no rows; without a failure the caller gets the engine's whole result
\* set, an empty one included.
C10_OneAttemptAllOrNothing ==
    \A i \in InFlight :
      /\ calls[i].queries = 1 /\ calls[i].connects <= 1 /\ calls[i].executes <= 1
      /\ calls[i].pc = "done" =>
           /\ calls[i].connects = 1
           /\ calls[i].executes = (IF calls[i].failure \in {"connect", "cursor"} THEN 0 ELSE 1)
           /\ calls[i].failure # "none" =>
                /\ calls[i].out.status = "error"
                /\ calls[i].out.error = calls[i].failure
                /\ calls[i].out.rows = <<>>
           /\ calls[i].failure = "none" =>
                /\ calls[i].out.status = "ok"
                /\ calls[i].out.rows = calls[i].server

\* One invocation lost its connection after a row had arrived and returned
\* an error; another got an empty result set as a success.
C10_Witness ==
    \E i, j \in InFlight :
      /\ calls[i].pc = "done" /\ calls[i].failure = "fetch"
      /\ Len(calls[i].partial) > 0 /\ calls[i].out.status = "error"
      /\ calls[j].pc = "done" /\ calls[j].out.status = "ok"
      /\ calls[j].out.rows = <<>> /\ calls[j].executes = 1

----------------------------------------------------------------------------
(* The window of the history operations: tables with lines in the current  *)
(* month and in the months before it, none dated after today.              *)

MaxHistoryRows == 3

MonthsBack(k) == ToVarcharYYYYMM(DateAddMonths(Feb2026, 0 - k))

WindowUniverse ==
    { FactRow(MonthsBack(k), AC, DLR, TX, JH1, OtherGL, 100, 60, FALSE, FALSE, FALSE) :
        k \in 0..3 }
      \cup { FactRow(MonthsBack(k), BO, IND, EA, PT3, OtherGL, 200, 60, FALSE, FALSE, FALSE) :
               k \in 0..1 }
      \cup { FactRow(MonthsBack(0), AC, DLR, TX, JH1, FastenerTools, 0, 600,
                     TRUE, FALSE, FALSE) }

MonthsInputs == {0, 1, 2, 3, 30}
AccountInputs == {<<>>, <<97, 99>>}         \* "" and "ac"

InitHistory ==
    /\ db \in UpTo(WindowUniverse, MaxHistoryRows)
    /\ cfg = [CURRENT_PERIOD |-> P02, COMPARISON_PERIOD |-> P01]
    /\ today = Feb2026
    /\ resp = NoResp
    /\ prev = NoResp
    /\ NoCalls

NextHistory ==
    \/ \E n \in MonthsInputs : GetMarginHistory(n)
    \/ \E a \in AccountInputs, n \in MonthsInputs : GetAccountHistory(a, n)
    \/ Deliver

SpecHistory == InitHistory /\ [][NextHistory]_vars

\* The periods of the rows of the response at hand.
PeriodsReturned == {resp.rows[i].PERIOD_MONTH : i \in 1..Len(resp.rows)}

HistoryAnswered == resp.op \in HistoryOps /\ resp.status = "ok"

\* C11: margin-history and account-history called with months = N (clamped
\* to 1..24) return rows of at most N distinct periods.
C11_AtMostNPeriods ==
    HistoryAnswered =>
      Cardinality(PeriodsReturned) <= HistoryMonths(resp.args.months)

\* What the statements do return on a table with no line dated after today:
\* the periods from N months before the current month up to the current month,
\* the current month included, hence up to N + 1 of them.
HistoryWindowIsNPlusOne ==
    HistoryAnswered =>
      LET n == HistoryMonths(resp.args.months)
      IN  /\ PeriodsReturned \subseteq {MonthsBack(k) : k \in 0..n}
          /\ Cardinality(PeriodsReturned) <= n + 1
          /\ resp.op = "margin_history" =>
               PeriodsReturned =
                 {r.PERIOD_MONTH : r \in {x \in db : LexGE(x.PERIOD_MONTH, MonthsBack(n))}}

\* margin-history asked for one month returned two periods.
TwoPeriodsForOneMonth ==
    /\ Ok("margin_history") /\ resp.args.months = 1
    /\ Cardinality(PeriodsReturned) = 2

----------------------------------------------------------------------------
(* The period argument of top-customers and product-performance            *)

FilterAnswered == resp.op \in FilterOps /\ resp.status = "ok"

\* The lines of the table whose period is p.
OfPeriod(p) == {r \in db : r.PERIOD_MONTH = p}

HasPeriodEquality ==
    \E i \in 1..Len(resp.sql.where) : resp.sql.where[i] = EqParam("PERIOD_MONTH")

EmptyPeriodGotCurrentRows ==
    /\ Ok("top_customers")
    /\ resp.args.period_month = <<>>
    /\ Len(resp.rows) > 0

\* A period other than the current one came back with its rows.
OtherPeriodGotItsRows ==
    /\ FilterAnswered
    /\ Truthy(resp.args.period_month)
    /\ resp.args.period_month # cfg.CURRENT_PERIOD
    /\ Len(resp.rows) > 0

----------------------------------------------------------------------------
(* Which entities the conversion tracker reports                           *)

\* The tool placements of the current period: TFA lines under the
\* tool-and-fastener GL code.
PlacementLines == {r \in db : /\ r.PERIOD_MONTH = cfg.CURRENT_PERIOD
                              /\ r.IS_TFA
                              /\ r.GL_CODE = FastenerTools}
PlacementsOf(c) == {r \in PlacementLines : r.PARENTNAME = c}
PlacementsAt(c, g) == {r \in PlacementsOf(c) : r.PRICE_BRANCH_REGION = g}

QualifyingCustomers ==
    {c \in {r.PARENTNAME : r \in PlacementLines} : SumGP(PlacementsOf(c)) < -500}

QualifyingPlacements ==
    {cg \in {<<r.PARENTNAME, r.PRICE_BRANCH_REGION>> : r \in PlacementLines} :
       SumGP(PlacementsAt(cg[1], cg[2])) < -500}

\* C13 as stated: the result has one row for each customer whose placements
\* of the current period sum to less than -500, no row for any other customer,
\* and no customer in two rows.
C13_OneRowPerCustomer ==
    Ok("tfa_conversion_status") =>
      /\ {resp.rows[i].CUSTOMER : i \in 1..Len(resp.rows)} = QualifyingCustomers
      /\ \A i, j \in 1..Len(resp.rows) :
           resp.rows[i].CUSTOMER = resp.rows[j].CUSTOMER => i = j

\* C13 amended: the result has one row for each pair of customer and region
\* whose placements of the current period sum to less than -500 (exactly -500
\* does not count), carrying the absolute value of that sum, and no other row;
\* a customer has as many rows as it has such regions.
C13_OneRowPerCustomerRegion ==
    Ok("tfa_conversion_status") =>
      /\ {<<resp.rows[i].CUSTOMER, resp.rows[i].REGION>> : i \in 1..Len(resp.rows)}
           = QualifyingPlacements
      /\ \A i, j \in 1..Len(resp.rows) :
           (/\ resp.rows[i].CUSTOMER = resp.rows[j].CUSTOMER
            /\ resp.rows[i].REGION = resp.rows[j].REGION) => i = j
      /\ \A i \in 1..Len(resp.rows) :
           resp.rows[i].PLACEMENT_COST =
             Abs(SumGP(PlacementsAt(resp.rows[i].CUSTOMER, resp.rows[i].REGION)))

\* One customer came back in two rows, one for each region of its placements.
C13_Witness ==
    /\ Ok("tfa_conversion_status")
    /\ \E i, j \in 1..Len(resp.rows) :
         /\ resp.rows[i].CUSTOMER = resp.rows[j].CUSTOMER
         /\ resp.rows[i].REGION # resp.rows[j].REGION

\* A customer whose placements sum below the threshold only across its
\* regions got no row.
SplitLossNotReported ==
    /\ Ok("tfa_conversion_status")
    /\ resp.rows = <<>>
    /\ QualifyingCustomers # {}

\* A placement of exactly -500 got no row.
ThresholdPlacementNotReported ==
    /\ Ok("tfa_conversion_status")
    /\ resp.rows = <<>>
    /\ \E r \in PlacementLines :
         SumGP(PlacementsAt(r.PARENTNAME, r.PRICE_BRANCH_REGION)) = -500

====
